---- MODULE Spec2Model ----
(***************************************************************************)
(* Maze_Runner_basic: a runner explores a rectangular maze with the        *)
(* left-hug rule (maze.py, runner.py); shortest_path then removes the      *)
(* loops of the exploration path.                                          *)
(*                                                                         *)
(* One Maze object is modelled: its construction (Init), the insertion of  *)
(* interior walls, and calls of shortest_path, whose two loops (explore's  *)
(* while loop and the loop-removal for loop) advance one iteration per     *)
(* step.  Rendering is off (render_settings = (False, False, 1.) after     *)
(* __init__) and changes no field of the Maze, so it is left out.          *)
(***************************************************************************)
EXTENDS Integers, Sequences, FiniteSets, TLC

\* A maze has at most MaxCells cells (width * height <= MaxCells).
MaxCells == 6
\* shortest_path is called at most MaxCalls times on the Maze object.
MaxCalls == 2
\* Input traces of the loop removal taken alone have at most MaxLen entries,
\* over the coordinates (0,0) .. (MaxCoord,0).
MaxLen == 5
\* Side of the square maze in which a single Runner is turned and advanced.
RoomSide == 3
\* Largest number of cells of a maze run from the command line.
MainCells == 4
MaxCoord == 3
\* explore has no step limit; the model stops a run after MaxSteps moves.  A
\* run that reaches the goal never starts two moves in the same cell with the
\* same orientation, so it makes fewer than 4 * width * height moves.
MaxSteps == 4 * MaxCells + 2

VARIABLES
    width, height,      \* Maze._width, Maze._height
    h_walls, v_walls,   \* Maze._h_walls, Maze._v_walls
    path,               \* Maze._path
    exploration_data,   \* Maze._exploration_data
    prev_runner,        \* Maze.prev_runner (<<>> until move assigns it)
    runner,             \* the Runner of the current shortest_path call
    starting, goal,     \* the arguments of the current call, defaults applied
    num, actions,       \* locals of explore
    visited, direct_path, index,  \* locals of the loop removal
    result,             \* the value the last completed call returned
    calls,              \* number of shortest_path calls made on this Maze
    seen,               \* runner states at the head of explore's loop, this call
    pc                  \* "build" | "explore" | "simplify" | "done" | "error"

vars == <<width, height, h_walls, v_walls, path, exploration_data, prev_runner,
          runner, starting, goal, num, actions, visited, direct_path, index,
          result, calls, seen, pc>>

----------------------------------------------------------------------------
\* Python helpers

\* seq[k] for a Python tuple: a negative index counts from the end.
PyIndex(seq, k) == IF k < 0 THEN seq[Len(seq) + k + 1] ELSE seq[k + 1]

\* Variant: the stop index is included.
PySliceTo_inclusive(seq, n) == SubSeq(seq, 1, IF n + 1 < Len(seq) THEN n + 1 ELSE Len(seq))

\* seq[:n] for n >= 0: a stop beyond the end is clipped.
\* Variant: seq[:n - 1], one element short.
PySliceTo_short(seq, n) == SubSeq(seq, 1, IF n - 1 < Len(seq) THEN n - 1 ELSE Len(seq))

PySliceTo(seq, n) == SubSeq(seq, 1, IF n < Len(seq) THEN n ELSE Len(seq))

\* seq.index(v): position (from 0) of the first occurrence.
PyIndexOf(seq, v) == (CHOOSE i \in 1..Len(seq) :
                        seq[i] = v /\ \A j \in 1..(i - 1) : seq[j] # v) - 1

Digit == <<"0", "1", "2", "3", "4", "5", "6", "7", "8", "9">>

\* str(n) for an int: its decimal digits, with a leading "-" when negative.
RECURSIVE str(_)
str(n) == IF n < 0 THEN "-" \o str(-n)
          ELSE IF n < 10 THEN Digit[n + 1]
          ELSE str(n \div 10) \o Digit[(n % 10) + 1]

----------------------------------------------------------------------------
\* runner.py

\* Variant: the coordinates are stored exchanged.
create_runner_swapped(x, y, orientation) == [x |-> y, y |-> x, orientation |-> orientation]

create_runner(x, y, orientation) == [x |-> x, y |-> y, orientation |-> orientation]

get_x(r) == r.x
get_y(r) == r.y
get_orientation(r) == r.orientation

orientations == <<"N", "E", "S", "W">>

\* (orientation to the left, current orientation, orientation to the right)
orientation_options(r) ==
    LET current_orientation == get_orientation(r)
        current_orientation_index == PyIndexOf(orientations, current_orientation)
    IN  << PyIndex(orientations, current_orientation_index - 1),
           current_orientation,
           PyIndex(orientations, (current_orientation_index + 1) % Len(orientations)) >>

\* Variant: "Left" takes the orientation to the right and "Right" the one to
\* the left.
turn_mirrored(r, direction) ==
    LET new_orientations == orientation_options(r)
        r1 == IF direction = "Left"
              THEN [r EXCEPT !.orientation = new_orientations[3]] ELSE r
    IN  IF direction = "Right"
        THEN [r1 EXCEPT !.orientation = new_orientations[1]] ELSE r1

turn(r, direction) ==
    LET new_orientations == orientation_options(r)
        r1 == IF direction = "Left"
              THEN [r EXCEPT !.orientation = new_orientations[1]] ELSE r
    IN  IF direction = "Right"
        THEN [r1 EXCEPT !.orientation = new_orientations[3]] ELSE r1

\* Variant: north and south are exchanged.
forward_flipped(r) ==
    LET orientation == get_orientation(r)
    IN  IF orientation = "N" THEN [r EXCEPT !.y = @ - 1]
        ELSE IF orientation = "S" THEN [r EXCEPT !.y = @ + 1]
        ELSE IF orientation = "E" THEN [r EXCEPT !.x = @ + 1]
        ELSE IF orientation = "W" THEN [r EXCEPT !.x = @ - 1]
        ELSE r

forward(r) ==
    LET orientation == get_orientation(r)
    IN  IF orientation = "N" THEN [r EXCEPT !.y = @ + 1]
        ELSE IF orientation = "S" THEN [r EXCEPT !.y = @ - 1]
        ELSE IF orientation = "E" THEN [r EXCEPT !.x = @ + 1]
        ELSE IF orientation = "W" THEN [r EXCEPT !.x = @ - 1]
        ELSE r

----------------------------------------------------------------------------
\* maze.py: wall queries and the left-hug move

\* (north, east, south, west)
\* Variant: the north wall is looked up on the cell's own line.
get_walls_shifted(x_coordinate, y_coordinate) ==
    << <<x_coordinate, y_coordinate>> \in h_walls,
       <<x_coordinate + 1, y_coordinate>> \in v_walls,
       <<x_coordinate, y_coordinate>> \in h_walls,
       <<x_coordinate, y_coordinate>> \in v_walls >>

get_walls(x_coordinate, y_coordinate) ==
    << <<x_coordinate, y_coordinate + 1>> \in h_walls,
       <<x_coordinate + 1, y_coordinate>> \in v_walls,
       <<x_coordinate, y_coordinate>> \in h_walls,
       <<x_coordinate, y_coordinate>> \in v_walls >>

\* Variant: the indices of east and west are exchanged.
wall_num_mirrored(orientation) ==
    IF orientation = "N" THEN 0
    ELSE IF orientation = "S" THEN 2
    ELSE IF orientation = "E" THEN 3
    ELSE 1

wall_num(orientation) ==
    IF orientation = "N" THEN 0
    ELSE IF orientation = "S" THEN 2
    ELSE IF orientation = "E" THEN 1
    ELSE 3

\* (left wall, wall in front, right wall)
sense_walls(r) ==
    LET walls == get_walls(get_x(r), get_y(r))
        opts == orientation_options(r)
    IN  [i \in 1..3 |-> PyIndex(walls, wall_num(opts[i]))]

\* raised = TRUE stands for the ValueError; the runner is then left as it was.
\* Variant: the wall to the left is tested instead of the wall in front.
go_straight_left_check(r) ==
    IF ~sense_walls(r)[1]
    THEN [runner |-> forward(r), raised |-> FALSE]
    ELSE [runner |-> r, raised |-> TRUE]

go_straight(r) ==
    IF ~sense_walls(r)[2]
    THEN [runner |-> forward(r), raised |-> FALSE]
    ELSE [runner |-> r, raised |-> TRUE]

\* Variant: the last branch turns left once instead of twice.
move_one_turn(r) ==
    LET sensed_walls == sense_walls(r)
    IN  IF ~sensed_walls[1]
        THEN go_straight(turn(r, "Left")) @@ [action |-> "LF"]
        ELSE IF ~sensed_walls[2]
        THEN go_straight(r) @@ [action |-> "F"]
        ELSE IF ~sensed_walls[3]
        THEN go_straight(turn(r, "Right")) @@ [action |-> "RF"]
        ELSE go_straight(turn(r, "Left")) @@ [action |-> "LLF"]

\* Variant: going straight is tried before turning left.
move_front_first(r) ==
    LET sensed_walls == sense_walls(r)
    IN  IF ~sensed_walls[2]
        THEN go_straight(r) @@ [action |-> "F"]
        ELSE IF ~sensed_walls[1]
        THEN go_straight(turn(r, "Left")) @@ [action |-> "LF"]
        ELSE IF ~sensed_walls[3]
        THEN go_straight(turn(r, "Right")) @@ [action |-> "RF"]
        ELSE go_straight(turn(turn(r, "Left"), "Left")) @@ [action |-> "LLF"]

\* turn works in place, so a raise in go_straight leaves the runner turned.
move(r) ==
    LET sensed_walls == sense_walls(r)
    IN  IF ~sensed_walls[1]
        THEN go_straight(turn(r, "Left")) @@ [action |-> "LF"]
        ELSE IF ~sensed_walls[2]
        THEN go_straight(r) @@ [action |-> "F"]
        ELSE IF ~sensed_walls[3]
        THEN go_straight(turn(r, "Right")) @@ [action |-> "RF"]
        ELSE go_straight(turn(turn(r, "Left"), "Left")) @@ [action |-> "LLF"]

----------------------------------------------------------------------------
\* maze.py: the loop removal of shortest_path, one iteration and the whole loop

\* Variant: the truncation drops the first occurrence too ([:loop_start]).
simplify_iteration_cut_first(st, position) ==
    IF position \in DOMAIN st.visited
    THEN LET loop_start == st.visited[position]
         IN  [st EXCEPT !.direct_path = PySliceTo(@, loop_start)]
    ELSE LET appended == Append(st.direct_path, <<position[1], position[2]>>)
         IN  [visited |-> (position :> (Len(appended) - 1)) @@ st.visited,
              direct_path |-> appended]

\* Variant: the position is appended but never recorded in visited.
simplify_iteration_no_record(st, position) ==
    IF position \in DOMAIN st.visited
    THEN LET loop_start == st.visited[position]
         IN  [st EXCEPT !.direct_path = PySliceTo(@, loop_start + 1)]
    ELSE [st EXCEPT !.direct_path = Append(@, <<position[1], position[2]>>)]

\* Variant: the appended coordinate has x and y exchanged.
simplify_iteration_swapped(st, position) ==
    IF position \in DOMAIN st.visited
    THEN LET loop_start == st.visited[position]
         IN  [st EXCEPT !.direct_path = PySliceTo(@, loop_start + 1)]
    ELSE LET appended == Append(st.direct_path, <<position[2], position[1]>>)
         IN  [visited |-> (position :> (Len(appended) - 1)) @@ st.visited,
              direct_path |-> appended]

simplify_iteration(st, position) ==
    IF position \in DOMAIN st.visited
    THEN LET loop_start == st.visited[position]
         IN  [st EXCEPT !.direct_path = PySliceTo(@, loop_start + 1)]
    ELSE LET appended == Append(st.direct_path, <<position[1], position[2]>>)
         IN  [visited |-> (position :> (Len(appended) - 1)) @@ st.visited,
              direct_path |-> appended]

RECURSIVE simplify_from(_, _, _)
simplify_from(st, trace, i) ==
    IF i > Len(trace) THEN st.direct_path
    ELSE simplify_from(simplify_iteration(st, trace[i]), trace, i + 1)

simplify(trace) == simplify_from([visited |-> <<>>, direct_path |-> <<>>], trace, 1)

----------------------------------------------------------------------------
\* Maze.__init__

header == <<"Step", "x-coordinate", "y-coordinate", "Actions">>

NoRunner == create_runner(0, 0, "N")

\* Variant: the outer horizontal walls of the top line are not added.
Init_open_top ==
    /\ width \in 1..MaxCells
    /\ height \in 1..MaxCells
    /\ width * height <= MaxCells
    /\ v_walls = {<<0, i>> : i \in 0..(height - 1)} \cup {<<width, i>> : i \in 0..(height - 1)}
    /\ h_walls = {<<i, 0>> : i \in 0..(width - 1)}
    /\ path = <<>>
    /\ exploration_data = <<header>>
    /\ prev_runner = <<>>
    /\ runner = NoRunner
    /\ starting = <<0, 0>>
    /\ goal = <<0, 0>>
    /\ num = 0
    /\ actions = ""
    /\ visited = <<>>
    /\ direct_path = <<>>
    /\ index = 0
    /\ result = <<>>
    /\ calls = 0
    /\ seen = {}
    /\ pc = "build"

Init ==
    /\ width \in 1..MaxCells
    /\ height \in 1..MaxCells
    /\ width * height <= MaxCells
    /\ v_walls = {<<0, i>> : i \in 0..(height - 1)} \cup {<<width, i>> : i \in 0..(height - 1)}
    /\ h_walls = {<<i, 0>> : i \in 0..(width - 1)} \cup {<<i, height>> : i \in 0..(width - 1)}
    /\ path = <<>>
    /\ exploration_data = <<header>>
    /\ prev_runner = <<>>
    /\ runner = NoRunner
    /\ starting = <<0, 0>>
    /\ goal = <<0, 0>>
    /\ num = 0
    /\ actions = ""
    /\ visited = <<>>
    /\ direct_path = <<>>
    /\ index = 0
    /\ result = <<>>
    /\ calls = 0
    /\ seen = {}
    /\ pc = "build"

----------------------------------------------------------------------------
\* Maze.add_horizontal_wall, Maze.add_vertical_wall

\* Arguments tried for the wall insertions: in range and out of range.
ArgRange == (0 - 1)..MaxCells

\* Variant: the segment is stored as (line, x).
add_horizontal_wall_swapped(x_coordinate, horizontal_line) ==
    /\ pc = "build"
    /\ h_walls' = IF 0 <= x_coordinate /\ x_coordinate < width
                     /\ 1 <= horizontal_line /\ horizontal_line < height
                  THEN h_walls \cup {<<horizontal_line, x_coordinate>>}
                  ELSE h_walls
    /\ UNCHANGED <<width, height, v_walls, path, exploration_data, prev_runner,
                   runner, starting, goal, num, actions, visited, direct_path,
                   index, result, calls, seen, pc>>

add_horizontal_wall(x_coordinate, horizontal_line) ==
    /\ pc = "build"
    /\ h_walls' = IF 0 <= x_coordinate /\ x_coordinate < width
                     /\ 1 <= horizontal_line /\ horizontal_line < height
                  THEN h_walls \cup {<<x_coordinate, horizontal_line>>}
                  ELSE h_walls
    /\ UNCHANGED <<width, height, v_walls, path, exploration_data, prev_runner,
                   runner, starting, goal, num, actions, visited, direct_path,
                   index, result, calls, seen, pc>>

add_vertical_wall(y_coordinate, vertical_line) ==
    /\ pc = "build"
    /\ v_walls' = IF 0 <= y_coordinate /\ y_coordinate < height
                     /\ 1 <= vertical_line /\ vertical_line < width
                  THEN v_walls \cup {<<vertical_line, y_coordinate>>}
                  ELSE v_walls
    /\ UNCHANGED <<width, height, h_walls, path, exploration_data, prev_runner,
                   runner, starting, goal, num, actions, visited, direct_path,
                   index, result, calls, seen, pc>>

----------------------------------------------------------------------------
\* Maze.shortest_path and Maze.explore

Cells == (0..(width - 1)) \X (0..(height - 1))

\* The call of shortest_path up to the head of explore's loop.  The arguments
\* are in-bounds cells or None; a later call on the same Maze repeats the
\* arguments of the first.
shortest_path(starting_arg, goal_arg) ==
    /\ pc \in {"build", "done"}
    /\ calls < MaxCalls
    /\ LET s == IF starting_arg = "None" THEN <<0, 0>> ELSE starting_arg
           g == IF goal_arg = "None" THEN <<width - 1, height - 1>> ELSE goal_arg
       IN  /\ calls > 0 => (s = starting /\ g = goal)
           /\ starting' = s
           /\ goal' = g
           /\ runner' = create_runner(s[1], s[2], "N")
    /\ num' = 0
    /\ actions' = ""
    /\ seen' = {}
    /\ calls' = calls + 1
    /\ pc' = "explore"
    /\ UNCHANGED <<width, height, h_walls, v_walls, path, exploration_data,
                   prev_runner, visited, direct_path, index, result>>

\* Variant: the record carries the coordinate after the move.
explore_step_post_move ==
    /\ pc = "explore"
    /\ <<get_x(runner), get_y(runner)>> # goal
    /\ num < MaxSteps
    /\ LET position == <<get_x(runner), get_y(runner)>>
           moved == move(runner)
       IN  /\ path' = Append(path, position)
           /\ prev_runner' = position
           /\ runner' = moved.runner
           /\ seen' = seen \cup {runner}
           /\ IF moved.raised
              THEN /\ pc' = "error"
                   /\ UNCHANGED <<exploration_data, num, actions>>
              ELSE /\ exploration_data' = Append(exploration_data,
                          <<str(num + 1), str(get_x(runner')), str(get_y(runner')),
                            moved.action>>)
                   /\ num' = num + 1
                   /\ actions' = actions \o moved.action
                   /\ pc' = pc
    /\ UNCHANGED <<width, height, h_walls, v_walls, starting, goal, visited,
                   direct_path, index, result, calls>>

\* One iteration of explore's while loop.  When go_straight raises, the
\* ValueError leaves explore and shortest_path: the coordinate was appended
\* to the path and the runner was turned, but no record was written.
explore_step ==
    /\ pc = "explore"
    /\ <<get_x(runner), get_y(runner)>> # goal
    /\ num < MaxSteps
    /\ LET position == <<get_x(runner), get_y(runner)>>
           moved == move(runner)
       IN  /\ path' = Append(path, position)
           /\ prev_runner' = position
           /\ runner' = moved.runner
           /\ seen' = seen \cup {runner}
           /\ IF moved.raised
              THEN /\ pc' = "error"
                   /\ UNCHANGED <<exploration_data, num, actions>>
              ELSE /\ exploration_data' = Append(exploration_data,
                          <<str(num + 1), str(prev_runner'[1]), str(prev_runner'[2]),
                            moved.action>>)
                   /\ num' = num + 1
                   /\ actions' = actions \o moved.action
                   /\ pc' = pc
    /\ UNCHANGED <<width, height, h_walls, v_walls, starting, goal, visited,
                   direct_path, index, result, calls>>

\* Variant: explore returns without appending the goal.
explore_return_no_append ==
    /\ pc = "explore"
    /\ <<get_x(runner), get_y(runner)>> = goal
    /\ visited' = <<>>
    /\ direct_path' = <<>>
    /\ index' = 0
    /\ pc' = "simplify"
    /\ UNCHANGED <<width, height, h_walls, v_walls, path, exploration_data,
                   prev_runner, runner, starting, goal, num, actions, result,
                   calls, seen>>

\* The runner stands on the goal: explore appends it and returns, and
\* shortest_path sets up the loop removal.
explore_return ==
    /\ pc = "explore"
    /\ <<get_x(runner), get_y(runner)>> = goal
    /\ path' = Append(path, <<get_x(runner), get_y(runner)>>)
    /\ visited' = <<>>
    /\ direct_path' = <<>>
    /\ index' = 0
    /\ pc' = "simplify"
    /\ UNCHANGED <<width, height, h_walls, v_walls, exploration_data, prev_runner,
                   runner, starting, goal, num, actions, result, calls, seen>>

\* One iteration of the loop over enumerate(self.path).
simplify_step ==
    /\ pc = "simplify"
    /\ index < Len(path)
    /\ LET st == simplify_iteration([visited |-> visited, direct_path |-> direct_path],
                                    path[index + 1])
       IN  /\ visited' = st.visited
           /\ direct_path' = st.direct_path
    /\ index' = index + 1
    /\ UNCHANGED <<width, height, h_walls, v_walls, path, exploration_data,
                   prev_runner, runner, starting, goal, num, actions, result,
                   calls, seen, pc>>

\* The loop is over: shortest_path returns direct_path.
simplify_return ==
    /\ pc = "simplify"
    /\ index = Len(path)
    /\ result' = direct_path
    /\ pc' = "done"
    /\ UNCHANGED <<width, height, h_walls, v_walls, path, exploration_data,
                   prev_runner, runner, starting, goal, num, actions, visited,
                   direct_path, index, calls, seen>>

Next ==
    \/ \E x \in ArgRange, line \in ArgRange : add_horizontal_wall(x, line)
    \/ \E y \in ArgRange, line \in ArgRange : add_vertical_wall(y, line)
    \/ \E s \in Cells \cup {"None"}, g \in Cells \cup {"None"} : shortest_path(s, g)
    \/ explore_step
    \/ explore_return
    \/ simplify_step
    \/ simplify_return

Spec == Init /\ [][Next]_vars

\* A step of explore's loop (an iteration or the return), told by its first
\* effect: path gets the runner's coordinate.  It is enabled exactly when
\* explore_step or explore_return is, and the steps of Next that satisfy it
\* are exactly theirs.
explore_loop ==
    /\ pc = "explore"
    /\ (<<get_x(runner), get_y(runner)>> = goal \/ num < MaxSteps)
    /\ path' = Append(path, <<get_x(runner), get_y(runner)>>)

\* The program is one thread that runs its loops to the end: an enabled step
\* of explore's loop or of the loop removal is eventually taken.  Nothing
\* forces a further add_*_wall or shortest_path call.
FairSpec == Spec /\ WF_path(explore_loop)
                 /\ WF_vars(simplify_step) /\ WF_vars(simplify_return)

----------------------------------------------------------------------------
\* The loop removal taken alone: it runs over an arbitrary trace.

Coords == {<<i, 0>> : i \in 0..MaxCoord}

RECURSIVE TracesOfLen(_)
TracesOfLen(n) ==
    IF n = 0 THEN {<<>>}
    ELSE {Append(t, c) : t \in TracesOfLen(n - 1), c \in Coords}

Traces == UNION {TracesOfLen(n) : n \in 0..MaxLen}

SimplifierInit ==
    /\ width = 1
    /\ height = 1
    /\ v_walls = {<<0, 0>>, <<1, 0>>}
    /\ h_walls = {<<0, 0>>, <<0, 1>>}
    /\ path \in Traces
    /\ exploration_data = <<header>>
    /\ prev_runner = <<>>
    /\ runner = NoRunner
    /\ starting = <<0, 0>>
    /\ goal = <<0, 0>>
    /\ num = 0
    /\ actions = ""
    /\ visited = <<>>
    /\ direct_path = <<>>
    /\ index = 0
    /\ result = <<>>
    /\ calls = 1
    /\ seen = {}
    /\ pc = "simplify"

SimplifierNext == simplify_step \/ simplify_return

SimplifierSpec == SimplifierInit /\ [][SimplifierNext]_vars

NoRepeat(t) == \A a, b \in 1..Len(t) : t[a] = t[b] => a = b

\* C2: when the loop removal has returned for a non-empty trace, its output
\* begins with the first coordinate of the trace and ends with the last one.
C2_SameEndpoints ==
    (pc = "done" /\ Len(path) > 0) =>
        /\ Len(result) > 0
        /\ result[1] = path[1]
        /\ result[Len(result)] = path[Len(path)]

\* The only repeat in t is t[i] = t[j], i < j: t = P ++ [B] ++ L ++ [B] ++ Q.
OneLoop(t, i, j) ==
    /\ i < j
    /\ t[i] = t[j]
    /\ \A a, b \in 1..Len(t) : (a < b /\ t[a] = t[b]) => (a = i /\ b = j)

\* C5: a trace P ++ [B] ++ L ++ [B] ++ Q whose coordinates are otherwise
\* pairwise distinct is simplified to P ++ [B] ++ Q.
C5_SingleLoopRemoved ==
    pc = "done" =>
        \A i, j \in 1..Len(path) :
            OneLoop(path, i, j) =>
                result = SubSeq(path, 1, i) \o SubSeq(path, j + 1, Len(path))

\* The trace [A, B, C, B, D] has been simplified.
C5_Witness ==
    /\ pc = "done"
    /\ Len(path) = 5
    /\ OneLoop(path, 2, 4)
    /\ Len(result) = 3

\* C6: simplifying the output of the loop removal again returns it unchanged,
\* and the output contains no coordinate twice.
C6_Idempotent ==
    pc = "done" => (simplify(result) = result /\ NoRepeat(result))

\* A trace with revisits has been simplified to a shorter output.
C6_Witness ==
    /\ pc = "done"
    /\ ~NoRepeat(path)
    /\ \E i \in 1..Len(path) : \E j \in (i + 2)..Len(path) : path[i] = path[j]
    /\ Len(result) >= 2
    /\ Len(result) < Len(path)

\* C7: a trace in which no coordinate occurs twice is returned as it is.
C7_LoopFreeIdentity ==
    (pc = "done" /\ NoRepeat(path)) => result = path

\* A loop-free trace of several coordinates has been simplified.
C7_Witness ==
    /\ pc = "done"
    /\ NoRepeat(path)
    /\ Len(path) >= 3
    /\ result = path

----------------------------------------------------------------------------
\* Maze topology, as the claims speak of it

Min(a, b) == IF a < b THEN a ELSE b

Corners == (0..width) \X (0..height)

BoundaryCorners == {p \in Corners : p[1] \in {0, width} \/ p[2] \in {0, height}}

\* Each wall segment as the pair of grid corners it joins.
Segments ==
    {{<<w[1], w[2]>>, <<w[1] + 1, w[2]>>} : w \in h_walls}
        \cup {{<<w[1], w[2]>>, <<w[1], w[2] + 1>>} : w \in v_walls}

RECURSIVE JoinedFrom(_)
JoinedFrom(S) ==
    LET T == S \cup UNION {seg \in Segments : seg \cap S # {}}
    IN  IF T = S THEN S ELSE JoinedFrom(T)

\* The grid corners joined to the boundary wall through wall segments.
JoinedCorners == JoinedFrom(BoundaryCorners)

\* Every interior wall segment is connected to the boundary wall.
SimplyConnected == \A seg \in Segments : seg \subseteq JoinedCorners

\* Every grid corner is connected to the boundary wall: no wall stands apart
\* and no corner is free of walls, so the open cells form no cycle.
EveryCornerJoined == JoinedCorners = Corners

\* Cells a and b are side-adjacent and no wall segment lies between them.
Passage(a, b) ==
    \/ a[2] = b[2] /\ b[1] = a[1] + 1 /\ <<b[1], b[2]>> \notin v_walls
    \/ a[2] = b[2] /\ a[1] = b[1] + 1 /\ <<a[1], a[2]>> \notin v_walls
    \/ a[1] = b[1] /\ b[2] = a[2] + 1 /\ <<b[1], b[2]>> \notin h_walls
    \/ a[1] = b[1] /\ a[2] = b[2] + 1 /\ <<a[1], a[2]>> \notin h_walls

\* Breadth-first search: number of passages on a shortest way from the
\* frontier to target, -1 when there is none.
RECURSIVE BFS(_, _, _, _)
BFS(frontier, reached, target, d) ==
    IF target \in frontier THEN d
    ELSE LET next == {c \in Cells \ reached : \E f \in frontier : Passage(f, c)}
         IN  IF next = {} THEN 0 - 1
             ELSE BFS(next, reached \cup next, target, d + 1)

Distance(a, b) == BFS({a}, {a}, b, 0)

Reachable(a, b) == Distance(a, b) >= 0

\* The runner is at the head of explore's loop in a state it was in before at
\* the head of the loop, in the same call.  The loop body is a function of the
\* runner, the walls and the goal, so from here the run repeats itself and
\* never returns.
Recurs == pc = "explore" /\ runner \in seen

\* C1 (as claimed): in a simply-connected maze with the goal reachable from
\* the start, the exploration reaches the goal, so the explore loop is never
\* caught in a repeating run.
C1_SimplyConnectedTerminates ==
    (pc = "explore" /\ SimplyConnected /\ Reachable(starting, goal)) => ~Recurs

\* C1 (amended): in a maze where every grid corner is joined to the boundary
\* wall through wall segments, with the goal reachable from the start, every
\* explore loop eventually returns at the goal.
C1_ExploreTerminates ==
    (pc = "explore" /\ EveryCornerJoined /\ Reachable(starting, goal))
        ~> (pc = "simplify")

\* An exploration of several moves, with a dead end, has returned in such a maze.
C1_Witness ==
    /\ pc = "simplify"
    /\ EveryCornerJoined
    /\ width > 1 /\ height > 1
    /\ num >= 6
    /\ \E i \in 2..Len(exploration_data) : exploration_data[i][4] = "LLF"

----------------------------------------------------------------------------
\* The exploration, step by step

LeftOf == [N |-> "W", E |-> "N", S |-> "E", W |-> "S"]
RightOf == [N |-> "E", E |-> "S", S |-> "W", W |-> "N"]
Behind == [N |-> "S", E |-> "W", S |-> "N", W |-> "E"]

\* A wall segment lies on the side d of cell (x, y).
WallTowards(x, y, d) ==
    CASE d = "N" -> <<x, y + 1>> \in h_walls
      [] d = "E" -> <<x + 1, y>> \in v_walls
      [] d = "S" -> <<x, y>> \in h_walls
      [] d = "W" -> <<x, y>> \in v_walls

\* The runner one cell further in direction d, facing d.
Stepped(r, d) ==
    CASE d = "N" -> [x |-> r.x, y |-> r.y + 1, orientation |-> d]
      [] d = "E" -> [x |-> r.x + 1, y |-> r.y, orientation |-> d]
      [] d = "S" -> [x |-> r.x, y |-> r.y - 1, orientation |-> d]
      [] d = "W" -> [x |-> r.x - 1, y |-> r.y, orientation |-> d]

\* The action code and the direction the fixed priority gives the runner.
Choice(r) ==
    LET o == r.orientation
    IN  IF ~WallTowards(r.x, r.y, LeftOf[o]) THEN <<"LF", LeftOf[o]>>
        ELSE IF ~WallTowards(r.x, r.y, o) THEN <<"F", o>>
        ELSE IF ~WallTowards(r.x, r.y, RightOf[o]) THEN <<"RF", RightOf[o]>>
        ELSE <<"LLF", Behind[o]>>

Codes == {"F", "LF", "RF", "LLF"}

C8_TraceOfRun ==
    /\ [](calls = 1 =>
            /\ pc = "explore" =>
                  /\ Len(path) = num
                  /\ num > 0 => path[1] = starting
                  /\ \A i \in 1..Len(path) : path[i] # goal
            /\ pc \in {"simplify", "done"} =>
                  /\ Len(path) = num + 1
                  /\ path[1] = starting
                  /\ path[Len(path)] = goal
                  /\ \A i \in 1..(Len(path) - 1) : path[i] # goal)
    /\ [][calls' = 1 =>
            (Len(path') >= Len(path) /\ SubSeq(path', 1, Len(path)) = path)]_vars

\* A first run of several moves, with a cell visited twice, has just reached
\* the goal.
C8_Witness ==
    /\ pc = "simplify"
    /\ calls = 1
    /\ index = 0
    /\ num >= 5
    /\ ~NoRepeat(path)

\* The runner after taking the action of the given code.
Perform(r, code) ==
    CASE code = "F" -> forward(r)
      [] code = "LF" -> forward(turn(r, "Left"))
      [] code = "RF" -> forward(turn(r, "Right"))
      [] code = "LLF" -> forward(turn(turn(r, "Left"), "Left"))

\* The runners after the first 0, 1, ..., i recorded actions, from the start
\* facing N.
RECURSIVE Replay(_)
Replay(i) ==
    IF i = 0 THEN << [x |-> starting[1], y |-> starting[2], orientation |-> "N"] >>
    ELSE LET before == Replay(i - 1)
         IN  Append(before, Perform(before[i], exploration_data[i + 1][4]))

\* C9: in the first call on a Maze there is one record per move, in step
\* order after the header row: the i-th carries the step index i, the
\* coordinate of the trace entry i-1 (counted from 0), which is where the
\* runner stood before its i-th move, and one of the four action codes, the
\* one that took the runner from there to where it stood next.
C9_RecordsInStepOrder ==
    (calls = 1 /\ pc # "build") =>
        /\ Len(exploration_data) = num + 1
        /\ exploration_data[1] = header
        /\ \A i \in 1..num : exploration_data[i + 1][4] \in Codes
        /\ LET replayed == Replay(num)
           IN  /\ \A i \in 1..num :
                     LET rec == exploration_data[i + 1]
                     IN  /\ rec[1] = str(i)
                         /\ i <= Len(path)
                         /\ rec[2] = str(path[i][1])
                         /\ rec[3] = str(path[i][2])
                         /\ <<replayed[i].x, replayed[i].y>> = path[i]
                         /\ i < Len(path) =>
                               <<replayed[i + 1].x, replayed[i + 1].y>> = path[i + 1]
               /\ pc # "error" => replayed[num + 1] = runner

\* A first run is under way with several records and three different codes.
C9_Witness ==
    /\ pc = "explore"
    /\ calls = 1
    /\ num >= 4
    /\ Cardinality({exploration_data[i][4] : i \in 2..Len(exploration_data)}) >= 3

\* C10: when start equals goal, the first shortest_path call on a Maze makes
\* no move: the trace is [start], there is no record, the runner stays where
\* and as it was created, and the call returns [start].
C10_StartIsGoal ==
    (calls = 1 /\ pc # "build" /\ starting = goal) =>
        /\ pc \in {"explore", "simplify", "done"}
        /\ num = 0
        /\ actions = ""
        /\ exploration_data = <<header>>
        /\ prev_runner = <<>>
        /\ runner = [x |-> starting[1], y |-> starting[2], orientation |-> "N"]
        /\ path = IF pc = "explore" THEN <<>> ELSE <<starting>>
        /\ pc = "done" => result = <<starting>>

\* Such a call has returned, in a maze of several cells.
C10_Witness ==
    /\ pc = "done"
    /\ calls = 1
    /\ starting = goal
    /\ starting # <<0, 0>>
    /\ h_walls \cup v_walls # {}
    /\ result = <<starting>>

----------------------------------------------------------------------------
\* The corridor, the boundary and the wall insertions

\* "F" repeated n times.
RECURSIVE Forwards(_)
Forwards(n) == IF n = 0 THEN "" ELSE Forwards(n - 1) \o "F"

\* The cells (0,0), (0,1), ..., (0,n-1).
Column(n) == [i \in 1..n |-> <<0, i - 1>>]

BoundaryH == {<<x, 0>> : x \in 0..(width - 1)} \cup {<<x, height>> : x \in 0..(width - 1)}
BoundaryV == {<<0, y>> : y \in 0..(height - 1)} \cup {<<width, y>> : y \in 0..(height - 1)}

\* The first call runs in a corridor of width 1 without interior walls, from
\* (0,0) to (0,height-1).
CorridorRun ==
    /\ calls = 1
    /\ pc # "build"
    /\ width = 1
    /\ h_walls = BoundaryH
    /\ starting = <<0, 0>>
    /\ goal = <<0, height - 1>>

\* C11: in a corridor of width 1 and height N without interior walls, from
\* (0,0) to (0,N-1), the run takes "F" N-1 times, its trace is (0,0), (0,1),
\* ..., (0,N-1), and the simplified path is that trace.
C11_Corridor ==
    CorridorRun =>
        /\ pc \in {"explore", "simplify", "done"}
        /\ actions = Forwards(num)
        /\ \A i \in 2..Len(exploration_data) : exploration_data[i][4] = "F"
        /\ pc = "explore" => (num < height /\ path = Column(num))
        /\ pc \in {"simplify", "done"} => (num = height - 1 /\ path = Column(height))
        /\ pc = "done" => result = path

\* The run through a corridor of several cells has returned.
C11_Witness ==
    /\ CorridorRun
    /\ pc = "done"
    /\ height >= 4
    /\ result = Column(height)

\* C12: all boundary walls are present, after construction and after any
\* wall insertions.
C12_BoundaryPresent ==
    /\ BoundaryH \subseteq h_walls
    /\ BoundaryV \subseteq v_walls

\* Interior walls of both kinds were inserted, and every boundary segment
\* is there.
C12_Witness ==
    /\ pc = "build"
    /\ h_walls \ BoundaryH # {}
    /\ v_walls \ BoundaryV # {}
    /\ C12_BoundaryPresent

\* C13: add_horizontal_wall(x, line) adds (x, line) to the horizontal walls
\* when 0 <= x < width and 1 <= line < height and otherwise changes neither
\* wall set; add_vertical_wall(y, line) adds (line, y) to the vertical walls
\* when 0 <= y < height and 1 <= line < width and otherwise changes neither;
\* neither raises, and both leave the other wall set, the trace and the move
\* records alone.
C13_WallInsertion ==
    [][\A a, line \in ArgRange :
          /\ add_horizontal_wall(a, line) =>
                /\ h_walls' = IF a \in 0..(width - 1) /\ line \in 1..(height - 1)
                              THEN h_walls \cup {<<a, line>>} ELSE h_walls
                /\ v_walls' = v_walls
                /\ path' = path
                /\ exploration_data' = exploration_data
                /\ pc' = pc
          /\ add_vertical_wall(a, line) =>
                /\ v_walls' = IF a \in 0..(height - 1) /\ line \in 1..(width - 1)
                              THEN v_walls \cup {<<line, a>>} ELSE v_walls
                /\ h_walls' = h_walls
                /\ path' = path
                /\ exploration_data' = exploration_data
                /\ pc' = pc
      ]_vars

\* A horizontal interior wall was inserted away from the diagonal, and the
\* vertical walls are still the boundary ones.
C13_Witness ==
    /\ pc = "build"
    /\ \E w \in h_walls \ BoundaryH : w[1] # w[2]
    /\ v_walls = BoundaryV
    /\ width > 1

----------------------------------------------------------------------------
\* A Runner turned and advanced by hand in a square maze: turn, sense_walls
\* and go_straight on every cell, orientation and combination of walls around
\* the cell the Runner is created in.

\* The wall segments on the four sides of cell c.
SidesH(c) == {<<c[1], c[2]>>, <<c[1], c[2] + 1>>}
SidesV(c) == {<<c[1], c[2]>>, <<c[1] + 1, c[2]>>}

RunnerInit ==
    /\ width = RoomSide
    /\ height = RoomSide
    /\ \E c \in (0..(RoomSide - 1)) \X (0..(RoomSide - 1)) :
          /\ \E o \in {"N", "E", "S", "W"} : runner = create_runner(c[1], c[2], o)
          /\ \E s \in SUBSET SidesH(c) : h_walls = BoundaryH \cup s
          /\ \E s \in SUBSET SidesV(c) : v_walls = BoundaryV \cup s
    /\ path = <<>>
    /\ exploration_data = <<header>>
    /\ prev_runner = <<>>
    /\ starting = <<0, 0>>
    /\ goal = <<0, 0>>
    /\ num = 0
    /\ actions = ""
    /\ visited = <<>>
    /\ direct_path = <<>>
    /\ index = 0
    /\ result = <<>>
    /\ calls = 0
    /\ seen = {}
    /\ pc = "runner"

\* runner = turn(runner, direction); prev_runner keeps the Runner as it was.
turn_runner(direction) ==
    /\ pc = "runner"
    /\ prev_runner' = runner
    /\ runner' = turn(runner, direction)
    /\ UNCHANGED <<width, height, h_walls, v_walls, path, exploration_data,
                   starting, goal, num, actions, visited, direct_path, index,
                   result, calls, seen, pc>>

\* runner = maze.go_straight(runner)
go_straight_runner ==
    /\ pc = "runner"
    /\ prev_runner' = runner
    /\ runner' = go_straight(runner).runner
    /\ pc' = IF go_straight(runner).raised THEN "error" ELSE "runner"
    /\ UNCHANGED <<width, height, h_walls, v_walls, path, exploration_data,
                   starting, goal, num, actions, visited, direct_path, index,
                   result, calls, seen>>

RunnerNext ==
    \/ \E direction \in {"Left", "Right"} : turn_runner(direction)
    \/ go_straight_runner

RunnerSpec == RunnerInit /\ [][RunnerNext]_vars

\* C14: sense_walls returns (left, front, right) as the rotation of
\* get_walls' (north, east, south, west): facing N (west, north, east),
\* facing E (north, east, south), facing S (east, south, west), facing W
\* (south, west, north).
C14_SenseRotation ==
    LET w == get_walls(get_x(runner), get_y(runner))
        north == w[1]
        east == w[2]
        south == w[3]
        west == w[4]
        o == get_orientation(runner)
    IN  sense_walls(runner) =
            CASE o = "N" -> <<west, north, east>>
              [] o = "E" -> <<north, east, south>>
              [] o = "S" -> <<east, south, west>>
              [] o = "W" -> <<south, west, north>>

\* The Runner was turned to face east in a cell with walls to the north and
\* west only.
C14_Witness ==
    /\ pc = "runner"
    /\ prev_runner # <<>>
    /\ get_orientation(prev_runner) = "N"
    /\ get_orientation(runner) = "E"
    /\ get_walls(get_x(runner), get_y(runner)) = <<TRUE, FALSE, FALSE, TRUE>>
    /\ sense_walls(runner) = <<TRUE, FALSE, FALSE>>

\* C15: turning Left then Right, or Right then Left, restores the
\* orientation; a turn Left takes the predecessor and a turn Right the
\* successor in the cycle N, E, S, W, N; no turn changes the position.
C15_TurnCycle ==
    /\ [](/\ turn(turn(runner, "Left"), "Right") = runner
          /\ turn(turn(runner, "Right"), "Left") = runner)
    /\ [][\A direction \in {"Left", "Right"} :
            turn_runner(direction) =>
                /\ get_x(runner') = get_x(runner)
                /\ get_y(runner') = get_y(runner)
                /\ get_orientation(runner') =
                       IF direction = "Left"
                       THEN LeftOf[get_orientation(runner)]
                       ELSE RightOf[get_orientation(runner)]
         ]_vars

\* A Runner that faced north was turned to face west, in the same cell.
C15_Witness ==
    /\ pc = "runner"
    /\ prev_runner # <<>>
    /\ get_orientation(prev_runner) = "N"
    /\ get_orientation(runner) = "W"
    /\ get_x(runner) = get_x(prev_runner)
    /\ get_y(runner) = get_y(prev_runner)

----------------------------------------------------------------------------
\* Errors, truncation, unreachable goals and the runner's position

\* C16: no step of an exploration advances against a wall: go_straight never
\* raises its error during explore.
C16_NeverRaises == pc # "error"

\* C17: when the loop removal processes a coordinate recorded earlier at
\* output index k, the output immediately afterwards has length exactly k+1
\* and its element at index k is that coordinate.
C17_TruncatesToIndex ==
    [][(simplify_step /\ path[index + 1] \in DOMAIN visited) =>
          LET k == visited[path[index + 1]]
          IN  /\ Len(direct_path') = k + 1
              /\ PyIndex(direct_path', k) = path[index + 1]
      ]_vars

\* C18: when the goal is not reachable from the start cell, explore's loop
\* is running in every state of the call: it has neither returned nor
\* stopped with an error.
C18_UnreachableKeepsMoving ==
    (calls >= 1 /\ ~Reachable(starting, goal)) => pc = "explore"

Position(r) == <<get_x(r), get_y(r)>>

\* C19: every completed move of an exploration takes the runner to a
\* side-adjacent cell with no wall segment between it and the previous cell,
\* and the runner's position is inside the maze in every state of a call.
C19_MovesThroughPassages ==
    /\ [](calls >= 1 => Position(runner) \in Cells)
    /\ [][(explore_step /\ pc' # "error") =>
             /\ Passage(Position(runner), Position(runner'))
             /\ Position(runner') \in Cells
         ]_vars

\* The runner has made several moves and stands away from the start, off
\* the lines x = 0 and y = 0.
C19_Witness ==
    /\ pc = "explore"
    /\ num >= 3
    /\ get_x(runner) > 0
    /\ get_y(runner) > 0
    /\ Position(runner) # starting
    /\ Passage(prev_runner, Position(runner))

----------------------------------------------------------------------------
\* maze_runner.py, __main__: the --starting and --goal arguments

\* The integers written in the arguments, and the parts an argument is made
\* of once split at ", ": numerals and a part that is no numeral.
TokenInts == (0 - 1)..MainCells
Tokens == {str(k) : k \in TokenInts} \cup {"x"}

\* An argument left out (None), or given as one or two parts.
NoArg == [given |-> FALSE, parts |-> <<>>]
Args == {NoArg} \cup {[given |-> TRUE, parts |-> p] : p \in [1..1 -> Tokens] \cup [1..2 -> Tokens]}

\* int(token): raises ValueError unless the token is a numeral.
int_raises(token) == \A k \in TokenInts : str(k) # token
int(token) == CHOOSE k \in TokenInts : str(k) = token

\* (tuple(int(x) for x in arg.split(", "))[0], tuple(...)[1]): every part is
\* converted before an element is taken; error is "ValueError", "IndexError"
\* or "" when a pair results.
split_pair(parts) ==
    IF \E i \in 1..Len(parts) : int_raises(parts[i])
    THEN [error |-> "ValueError", pair |-> <<0, 0>>]
    ELSE IF Len(parts) < 2
    THEN [error |-> "IndexError", pair |-> <<0, 0>>]
    ELSE [error |-> "", pair |-> <<int(parts[1]), int(parts[2])>>]

out_of_bounds(c) ==
    c[1] > width - 1 \/ c[1] < 0 \/ c[2] > height - 1 \/ c[2] < 0

\* The starting coordinates: an out-of-bounds pair is reported and kept; a
\* ValueError gives (0, 0); an IndexError is not caught.
main_starting(arg) ==
    IF arg.given
    THEN LET parsed == split_pair(arg.parts)
         IN  IF parsed.error = "ValueError" THEN [error |-> "", pair |-> <<0, 0>>]
             ELSE parsed
    ELSE [error |-> "", pair |-> <<0, 0>>]

\* The goal coordinates: an out-of-bounds pair is replaced by
\* (width - 1, height - 1), as is a pair that raises ValueError.
main_goal(arg) ==
    IF arg.given
    THEN LET parsed == split_pair(arg.parts)
         IN  IF parsed.error = "ValueError"
             THEN [error |-> "", pair |-> <<width - 1, height - 1>>]
             ELSE IF parsed.error # "" THEN parsed
             ELSE IF out_of_bounds(parsed.pair)
             THEN [error |-> "", pair |-> <<width - 1, height - 1>>]
             ELSE parsed
    ELSE [error |-> "", pair |-> <<width - 1, height - 1>>]

\* The maze that maze_reader built is run once from the command line.
main(starting_arg, goal_arg) ==
    /\ pc = "build"
    /\ calls = 0
    /\ LET s == main_starting(starting_arg)
           g == main_goal(goal_arg)
       IN  IF s.error # "" \/ g.error # ""
           THEN /\ pc' = "error"
                /\ UNCHANGED <<width, height, h_walls, v_walls, path,
                               exploration_data, prev_runner, runner, starting,
                               goal, num, actions, visited, direct_path, index,
                               result, calls, seen>>
           ELSE shortest_path(s.pair, g.pair)

MainInit == Init /\ width * height <= MainCells

MainNext ==
    \/ \E x_coordinate, horizontal_line \in ArgRange :
          add_horizontal_wall(x_coordinate, horizontal_line)
    \/ \E y_coordinate, vertical_line \in ArgRange :
          add_vertical_wall(y_coordinate, vertical_line)
    \/ \E starting_arg, goal_arg \in Args : main(starting_arg, goal_arg)
    \/ explore_step
    \/ explore_return
    \/ simplify_step
    \/ simplify_return

MainSpec == MainInit /\ [][MainNext]_vars

\* C20: when --starting parses to a coordinate outside the maze, the run
\* starts at the default coordinate (0, 0).
C20_StartReplaced ==
    [][\A starting_arg, goal_arg \in Args :
          (/\ main(starting_arg, goal_arg)
           /\ starting_arg.given
           /\ split_pair(starting_arg.parts).error = ""
           /\ out_of_bounds(split_pair(starting_arg.parts).pair)
           /\ pc' = "explore") =>
              /\ starting' = <<0, 0>>
              /\ Position(runner') = <<0, 0>>
      ]_vars

----------------------------------------------------------------------------
\* The returned path, repeated calls, the wall error and repeated runner states

\* Every two consecutive coordinates of p are side-adjacent cells of the maze
\* with no wall segment between them.
Walkable(p) ==
    /\ \A i \in 1..Len(p) : p[i] \in Cells
    /\ \A i \in 1..(Len(p) - 1) : Passage(p[i], p[i + 1])

\* C21: the path returned by shortest_path on a fresh Maze starts at the
\* start, ends at the goal, and is walkable.
C21_WalkablePath ==
    (calls = 1 /\ pc = "done") =>
        /\ Len(result) >= 1
        /\ result[1] = starting
        /\ result[Len(result)] = goal
        /\ Walkable(result)

\* The first call returned a path of several cells, shorter than the trace
\* it was cut from.
C21_Witness ==
    /\ calls = 1
    /\ pc = "done"
    /\ Len(result) >= 3
    /\ Len(path) > Len(result) + 2
    /\ result[1] = starting
    /\ result[Len(result)] = goal
    /\ Walkable(result)

\* C22: a second call of shortest_path on the same Maze with the same start
\* and goal returns the path the first call returned.
C22_SameResultTwice ==
    [][(simplify_return /\ calls = 2) => result' = result]_vars

\* C23: go_straight raises its error only on the first move of an
\* exploration and only when the start cell has walls on all four sides; from
\* the second move on the side of the cell behind the runner is open, and no
\* move raises.
C23_RaisesOnlyWhenEnclosed ==
    /\ [](pc = "error" =>
             /\ num = 0
             /\ Position(runner) = starting
             /\ \A d \in {"N", "E", "S", "W"} : WallTowards(starting[1], starting[2], d))
    /\ []((pc = "explore" /\ num >= 1) =>
             ~WallTowards(get_x(runner), get_y(runner), Behind[get_orientation(runner)]))
    /\ [][(explore_step /\ num >= 1) => pc' # "error"]_vars

\* After several moves the runner has turned back in a dead end.
C23_Witness ==
    /\ pc = "explore"
    /\ num >= 3
    /\ exploration_data[Len(exploration_data)][4] = "LLF"
    /\ ~WallTowards(get_x(runner), get_y(runner), Behind[get_orientation(runner)])

\* The number of entries of p equal to c.
Occurrences(p, c) == Cardinality({i \in 1..Len(p) : p[i] = c})

\* C24: when an exploration run has reached the goal, no two of its steps
\* began with the runner at the same position with the same orientation, each
\* cell appears at most 4 times in the exploration trace, and the trace has
\* at most 4 * width * height entries.
C24_NoRepeatedState ==
    pc \in {"simplify", "done"} =>
        /\ Cardinality(seen) = num
        /\ \A c \in Cells : Occurrences(path, c) <= 4
        /\ Len(path) <= 4 * width * height

====
